---- MODULE Spec2Model ----
(***************************************************************************)
(* Proxy manager: the refresh loop, the pool and the rotation of           *)
(* src/proxy_manager.py (Spec), the bounded-concurrency batch validation   *)
(* of src/proxy_validator.py (SpecV), the table of src/proxy_storage.py    *)
(* (SpecS), and rotate_proxy over pools of any dicts (SpecF).              *)
(*                                                                         *)
(* Proxy dicts are objects of a heap (objAddr, objRT): the lists of the    *)
(* program hold references, and validate_proxy mutates a dict in place, so *)
(* a mutation is seen through every list that holds the dict.              *)
(***************************************************************************)
EXTENDS Integers, Sequences, FiniteSets, TLC

\* ---------------------------------------------------------------- bounds
MaxRefresh == 2      \* start() calls made by the caller (refresh threads)
MaxCycles == 2       \* scrapes made by all refresh threads together
MaxObjs == 2         \* proxy dicts made by all scrapes together
MaxBatch == 3        \* candidates of one validate_proxies batch
MaxCap == 2          \* largest max_concurrent_tests tried
MaxSaveLen == 1      \* proxies in the list of one save_proxies call
MaxTicks == 2        \* times the storage clock advances (by max_age)
MaxCount == 2        \* update_proxy_status calls counted for one proxy
MaxPool == 3         \* members of a pool handed to the rotation filter

\* ------------------------------------------------------ program constants
None == -1                   \* Python None (object ids, times and counts are >= 0)
check_interval == 3600
backoff == 60
threshold == 5
NumSources == 2
NumTestUrls == 2
NumValidatorUrls == 3
max_age == 86400             \* load_proxies: "Last 24 hours", seconds
MinUptimes == {0, 50, 95, 100}   \* min_uptime values tried, in percent

Addr == {"a", "b"}           \* identities ip:port the sources can report
\* the identities source s lists: "a" is on both sites, "b" on the second
SourceAddr(s) == IF s = 1 THEN {"a"} ELSE Addr
RTs == {1, 10}               \* measured response times, seconds
Main == 0                    \* the caller's thread
Refreshers == 1..MaxRefresh  \* refresh threads, in the order start() makes them
Threads == {Main} \cup Refreshers

VARIABLES
    \* ProxyManager
    proxies,        \* self.proxies: a list of dict references
    current_proxy,  \* self.current_proxy: a dict reference or None
    lock,           \* self.lock: the set of threads holding it (at most one)
    objAddr,        \* heap: dict reference -> its ip:port
    objRT,          \* heap: dict reference -> its 'response_time'
    objGen,         \* history: dict reference -> the scrape that made it
    pc,             \* thread -> position in its code
    new_proxies,    \* refresh thread -> local new_proxies of refresh_proxy_list
    vlist,          \* refresh thread -> the list validate_proxies iterates
    vi,             \* refresh thread -> index of the next element of vlist
    valid_proxies,  \* refresh thread -> local valid_proxies
    sleep_for,      \* refresh thread -> duration of its time.sleep
    ret,            \* how the caller's last call ended: [op, raised, value]
    nstart,         \* start() calls made
    cycles,         \* scrapes made
    \* history
    snap,           \* thread -> the list rotate_proxy read at its first access
    allFailed,      \* refresh thread -> every source failed in its last scrape
    hadEligible,    \* refresh thread -> the pool its validation published
                    \* held a proxy below the threshold
    \* ProxyValidator
    max_concurrent_tests,
    batch,          \* number of candidates submitted
    sem,            \* value of the semaphore
    tpc,            \* task -> position
    turl,           \* task -> index of the test url being probed
    tprobes,        \* task -> results of the probes made so far
    tproxy,         \* task -> the proxy dict it validates (key -> value)
    vvalid,         \* valid_proxies of ProxyValidator.validate_proxies
    vret,           \* the list validate_proxies returned to its caller
    vpc,            \* position of validate_proxies itself
    \* ProxyStorage
    db,             \* the rows of table proxies
    clock,          \* time.time()
    sop,            \* history: the last call [op, list, again, min_uptime]
    loaded,         \* what the last call, a load_proxies, returned
    \* rotate_proxy over a pool of any dicts
    fproxies,       \* self.proxies: a list of proxy dicts (key -> value)
    fret            \* how the call ended: [state, raised, index]

mvars == <<proxies, current_proxy, lock, objAddr, objRT, objGen, pc,
           new_proxies, vlist, vi, valid_proxies, sleep_for, ret, nstart,
           cycles, snap, allFailed, hadEligible>>
vvars == <<max_concurrent_tests, batch, sem, tpc, turl, tprobes, tproxy,
           vvalid, vret, vpc>>
svars == <<db, clock, sop, loaded>>
fvars == <<fproxies, fret>>
vars == <<mvars, vvars, svars, fvars>>

Tasks == 1..MaxBatch

\* ------------------------------------------------------------- helpers
Range(s) == {s[i] : i \in DOMAIN s}

RECURSIVE SelectSeq2(_, _)
\* [p for p in s if Test(p)] for a set of passing elements
SelectSeq2(s, pass) ==
    IF s = <<>> THEN <<>>
    ELSE IF Head(s) \in pass THEN <<Head(s)>> \o SelectSeq2(Tail(s), pass)
         ELSE SelectSeq2(Tail(s), pass)

\* d.get(k, default) of a dict d
Get(d, k, default) == IF k \in DOMAIN d THEN d[k] ELSE default

\* d[k] = v of a dict d: the key is added if it is not there
Set(d, k, v) == [x \in DOMAIN d \cup {k} |-> IF x = k THEN v ELSE d[x]]

\* ------------------------------------------------ ProxyManager: helpers
\* What one source yields in scrape_proxies: urlopen/read/parse raised
\* (ok = FALSE), or _parse_proxy_list returned rows (their ip:port).
SourceResults(s) ==
    [ok : {FALSE}, rows : {<<>>}] \cup
    [ok : {TRUE}, rows : {<<>>} \cup {<<a>> : a \in SourceAddr(s)}]

\* One outcome for each source of one scrape_proxies call.
ScrapeRuns ==
    {r \in [1..NumSources -> UNION {SourceResults(s) : s \in 1..NumSources}] :
        \A s \in 1..NumSources : r[s] \in SourceResults(s)}

\* proxies.extend(new_proxies) over the sources, a failed source adding nothing
RECURSIVE Scraped(_, _)
Scraped(res, n) ==
    IF n = 0 THEN <<>>
    ELSE Scraped(res, n - 1) \o (IF res[n].ok THEN res[n].rows ELSE <<>>)

\* The outcomes of the probes of one validate_proxy call, one per test url.
ProbeResults == {"ok", "bad_status", "exception"}
ProbeRuns == [1..NumTestUrls -> ProbeResults]

\* validate_proxy: the return value given what each probe would do. The loop
\* returns False at the first probe that is not a 200 response.
validate_proxy(run) == \A u \in 1..NumTestUrls : run[u] = "ok"

\* p.get('response_time', 5) < 5 raises TypeError when the value is None
FilterRaises(list) == \E i \in DOMAIN list : objRT[list[i]] = None

\* [p for p in self.proxies if p.get('response_time', 5) < 5]
fast_proxies(list) ==
    SelectSeq2(list, {o \in Range(list) : objRT[o] < threshold})

Returned(v) == [op |-> "rotate_proxy", raised |-> FALSE, value |-> v]
RaisedError == [op |-> "rotate_proxy", raised |-> TRUE, value |-> None]

NoCall == [op |-> "none", raised |-> FALSE, value |-> None]

\* The cycle of refresh thread t is over: what the history kept of it goes.
ForgetCycle(t) ==
    /\ allFailed' = [allFailed EXCEPT ![t] = FALSE]
    /\ hadEligible' = [hadEligible EXCEPT ![t] = FALSE]

\* rotate_proxy ends in thread t with outcome r: the caller gets r; in the
\* refresh loop an exception goes to the handler, a value to the sleep.
EndRotate(t, r) ==
    /\ lock' = lock \ {t}
    /\ snap' = [snap EXCEPT ![t] = <<>>]
    /\ IF t = Main
       THEN /\ ret' = r
            /\ pc' = [pc EXCEPT ![t] = "returned"]
            /\ UNCHANGED <<sleep_for, allFailed, hadEligible>>
       ELSE /\ UNCHANGED ret
            /\ IF r.raised
               THEN /\ pc' = [pc EXCEPT ![t] = "except"]
                    /\ UNCHANGED <<sleep_for, allFailed, hadEligible>>
               ELSE /\ pc' = [pc EXCEPT ![t] = "sleep"]
                    /\ sleep_for' = [sleep_for EXCEPT ![t] = check_interval]
                    /\ ForgetCycle(t)

\* ========================================================= ProxyStorage
\* time.time() as the storage calls read it: a multiple of max_age
ClockValues == {k * max_age : k \in 0..MaxTicks}

\* The proxy dicts a caller hands to save_proxies at time now. Every dict has
\* its identity (ip and port, protocol fixed); 'response_time' is missing,
\* None or a number; 'last_checked' is missing or a time up to now; the
\* counters are missing or given.
NoKeys == [k \in {} |-> None]
OptResponseTime == {NoKeys} \cup {("response_time" :> v) : v \in {None, 1}}
OptLastChecked(now) ==
    {NoKeys} \cup {("last_checked" :> t) : t \in {c \in ClockValues : c <= now}}
OptCounts ==
    {NoKeys} \cup
    {("success_count" :> sc) @@ ("fail_count" :> fc) : sc, fc \in 0..1}

SavedDicts(now) ==
    {("ip" :> a) @@ r @@ l @@ c :
        a \in Addr, r \in OptResponseTime, l \in OptLastChecked(now),
        c \in OptCounts}

SaveLists(now) ==
    UNION {[1..n -> SavedDicts(now)] : n \in 0..MaxSaveLen}

\* The VALUES of one INSERT: the row made of a proxy dict
SaveRow(proxy, now) ==
    [ip |-> proxy["ip"],
     response_time |-> Get(proxy, "response_time", 0),
     last_checked |-> Get(proxy, "last_checked", now),
     success_count |-> Get(proxy, "success_count", 0),
     fail_count |-> Get(proxy, "fail_count", 0)]

\* InsertOrReplace with the counters of the replaced row added to the new ones
InsertOrReplace_adds(table, row) ==
    {r \in table : r.ip # row.ip} \cup
    {[row EXCEPT
        !.success_count =
            @ + (IF \E r \in table : r.ip = row.ip
                 THEN (CHOOSE r \in table : r.ip = row.ip).success_count
                 ELSE 0),
        !.fail_count =
            @ + (IF \E r \in table : r.ip = row.ip
                 THEN (CHOOSE r \in table : r.ip = row.ip).fail_count
                 ELSE 0)]}

\* INSERT OR REPLACE under PRIMARY KEY (ip, port)
InsertOrReplace(table, row) == {r \in table : r.ip # row.ip} \cup {row}

\* for proxy in proxies: INSERT OR REPLACE ...
RECURSIVE SaveAll(_, _, _)
SaveAll(table, list, now) ==
    IF list = <<>> THEN table
    ELSE SaveAll(InsertOrReplace(table, SaveRow(Head(list), now)),
                 Tail(list), now)

\* The WHERE clause of load_proxies, min_uptime in percent. A division by
\* zero is NULL in SQLite and NULL >= ? is not true: such a row is left out.
LoadWhere(r, min_uptime, now) ==
    /\ r.success_count + r.fail_count # 0
    /\ r.success_count * 100 >= min_uptime * (r.success_count + r.fail_count)
    /\ r.last_checked >= now - max_age

\* The dicts load_proxies returns (SELECT * gives them in no stated order)
Load(table, min_uptime, now) == {r \in table : LoadWhere(r, min_uptime, now)}

NoOp == [op |-> "none", list |-> <<>>, again |-> FALSE, min_uptime |-> 0]

InitStorage ==
    /\ db = {}
    /\ clock = 0
    /\ sop = NoOp
    /\ loaded = {}

\* save_proxies(proxies)
save_proxies ==
    \E list \in SaveLists(clock) :
        /\ db' = SaveAll(db, list, clock)
        /\ sop' = [op |-> "save", list |-> list,
                   again |-> (sop.op = "save" /\ sop.list = list),
                   min_uptime |-> 0]
        /\ loaded' = {}
        /\ UNCHANGED clock

\* load_proxies(min_uptime)
load_proxies ==
    \E m \in MinUptimes :
        /\ loaded' = Load(db, m, clock)
        /\ sop' = [op |-> "load", list |-> <<>>, again |-> FALSE,
                   min_uptime |-> m]
        /\ UNCHANGED <<db, clock>>

\* update_proxy_status(proxy, success): an UPDATE of the row of the identity,
\* which changes nothing if there is no such row
update_proxy_status ==
    \E a \in Addr, success \in BOOLEAN :
        /\ \A r \in db : r.ip = a => r.success_count + r.fail_count < MaxCount
        /\ db' = {IF r.ip = a
                  THEN IF success
                       THEN [r EXCEPT !.success_count = @ + 1]
                       ELSE [r EXCEPT !.fail_count = @ + 1]
                  ELSE r : r \in db}
        /\ sop' = [op |-> "update", list |-> <<>>, again |-> FALSE,
                   min_uptime |-> 0]
        /\ loaded' = {}
        /\ UNCHANGED clock

\* Time passes between two calls.
tick ==
    /\ clock < MaxTicks * max_age
    /\ clock' = clock + max_age
    /\ UNCHANGED <<db, sop, loaded>>


\* ===================================== rotate_proxy over a pool of dicts
\* The dicts a pool can hold: 'response_time' missing, None, or a number
\* below, at or above the threshold
PoolDicts ==
    {NoKeys} \cup
    {("response_time" :> v) : v \in {None, threshold} \cup RTs}

Pools == UNION {[1..n -> PoolDicts] : n \in 0..MaxPool}

\* p.get('response_time', 5) of a member
FilterValue(p) == Get(p, "response_time", threshold)

\* PassesFilter with a member at the default let through
PassesFilter_default_passes(p) == FilterValue(p) <= threshold

\* p.get('response_time', 5) < 5
PassesFilter(p) == FilterValue(p) < threshold

\* None < 5 raises TypeError
PoolRaises(list) == \E i \in DOMAIN list : FilterValue(list[i]) = None

\* the positions of the members of fast_proxies
FastIndexes(list) == {i \in DOMAIN list : PassesFilter(list[i])}

FilterIdle == [state |-> "idle", raised |-> FALSE, index |-> 0]
FilterEnd(raised, i) == [state |-> "returned", raised |-> raised, index |-> i]

InitFilterIdle ==
    /\ fproxies = <<>>
    /\ fret = FilterEnd(FALSE, 0)

InitFilter ==
    /\ fproxies \in Pools
    /\ fret = FilterIdle

\* rotate_proxy(): index 0 stands for the return value None
rotate_pool ==
    /\ fret.state = "idle"
    /\ IF fproxies = <<>>
       THEN fret' = FilterEnd(FALSE, 0)
       ELSE IF PoolRaises(fproxies)
            THEN fret' = FilterEnd(TRUE, 0)
            ELSE IF FastIndexes(fproxies) # {}
                 THEN \E i \in FastIndexes(fproxies) :
                         fret' = FilterEnd(FALSE, i)
                 ELSE fret' = FilterEnd(FALSE, 0)
    /\ UNCHANGED fproxies

\* A proxy dict as _parse_proxy_list makes it, at time 0: not yet validated,
\* and with no counter keys (ip, port and the descriptive keys are left out)
ParsedProxy == ("response_time" :> None) @@ ("last_checked" :> 0)

\* ---------------------------------------------------------------- Init
InitValidatorIdle ==
    /\ max_concurrent_tests = 1
    /\ batch = 0
    /\ sem = 0
    /\ tpc = [i \in Tasks |-> "absent"]
    /\ turl = [i \in Tasks |-> 0]
    /\ tprobes = [i \in Tasks |-> <<>>]
    /\ tproxy = [i \in Tasks |-> ParsedProxy]
    /\ vvalid = <<>>
    /\ vret = <<>>
    /\ vpc = "idle"

InitManager ==
    /\ proxies = <<>>
    /\ current_proxy = None
    /\ lock = {}
    /\ objAddr = <<>>
    /\ objRT = <<>>
    /\ objGen = <<>>
    /\ pc = [t \in Threads |-> IF t = Main THEN "idle" ELSE "off"]
    /\ new_proxies = [t \in Refreshers |-> <<>>]
    /\ vlist = [t \in Refreshers |-> <<>>]
    /\ vi = [t \in Refreshers |-> 0]
    /\ valid_proxies = [t \in Refreshers |-> <<>>]
    /\ sleep_for = [t \in Refreshers |-> 0]
    /\ ret = NoCall
    /\ nstart = 0
    /\ cycles = 0
    /\ snap = [t \in Threads |-> <<>>]
    /\ allFailed = [t \in Refreshers |-> FALSE]
    /\ hadEligible = [t \in Refreshers |-> FALSE]

Init == InitManager /\ InitValidatorIdle /\ InitStorage /\ InitFilterIdle

\* ----------------------------------------------- ProxyManager: the caller
\* start(): makes and starts a new refresh thread, whatever ran before.
start ==
    /\ pc[Main] = "idle"
    /\ nstart < MaxRefresh
    /\ nstart' = nstart + 1
    /\ pc' = [pc EXCEPT ![nstart + 1] = "fetch"]
    /\ UNCHANGED <<proxies, current_proxy, lock, objAddr, objGen, objRT,
                   new_proxies, vlist, vi, valid_proxies, sleep_for, ret,
                   cycles, snap, allFailed,
                   hadEligible>>

\* get_current_proxy(): returns self.current_proxy, taking no lock.
get_current_proxy ==
    /\ pc[Main] = "idle"
    /\ ret' = [op |-> "get_current_proxy", raised |-> FALSE,
               value |-> current_proxy]
    /\ pc' = [pc EXCEPT ![Main] = "returned"]
    /\ UNCHANGED <<proxies, current_proxy, lock, objAddr, objGen, objRT,
                   new_proxies, vlist, vi, valid_proxies, sleep_for, nstart,
                   cycles, snap, allFailed,
                   hadEligible>>

\* The caller has its result and goes on (main's loop discards it).
caller_resume ==
    /\ pc[Main] = "returned"
    /\ pc' = [pc EXCEPT ![Main] = "idle"]
    /\ ret' = NoCall
    /\ UNCHANGED <<proxies, current_proxy, lock, objAddr, objGen, objRT,
                   new_proxies, vlist, vi, valid_proxies, sleep_for, nstart,
                   cycles, snap, allFailed,
                   hadEligible>>

\* The caller calls rotate_proxy().
call_rotate_proxy ==
    /\ pc[Main] = "idle"
    /\ pc' = [pc EXCEPT ![Main] = "rot_acq"]
    /\ UNCHANGED <<proxies, current_proxy, lock, objAddr, objGen, objRT,
                   new_proxies, vlist, vi, valid_proxies, sleep_for, ret,
                   nstart, cycles, snap, allFailed,
                   hadEligible>>

\* --------------------------------------------- ProxyManager.rotate_proxy
\* with self.lock: (entry)
rotate_proxy_acquire(t) ==
    /\ pc[t] = "rot_acq"
    /\ lock = {}
    /\ lock' = {t}
    /\ pc' = [pc EXCEPT ![t] = "rot_chk"]
    /\ UNCHANGED <<proxies, current_proxy, objAddr, objGen, objRT,
                   new_proxies, vlist, vi, valid_proxies, sleep_for, ret,
                   nstart, cycles, snap, allFailed,
                   hadEligible>>

\* if not self.proxies: return None
rotate_proxy_check(t) ==
    /\ pc[t] = "rot_chk"
    /\ IF proxies = <<>>
       THEN EndRotate(t, Returned(None))
       ELSE /\ snap' = [snap EXCEPT ![t] = proxies]
            /\ pc' = [pc EXCEPT ![t] = "rot_sel"]
            /\ UNCHANGED <<lock, ret, sleep_for, allFailed, hadEligible>>
    /\ UNCHANGED <<proxies, current_proxy, objAddr, objGen, objRT,
                   new_proxies, vlist, vi, valid_proxies, nstart, cycles>>

\* the filter, random.choice, the assignment of self.current_proxy, return
rotate_proxy_select(t) ==
    /\ pc[t] = "rot_sel"
    /\ IF FilterRaises(proxies)
       THEN /\ EndRotate(t, RaisedError)
            /\ UNCHANGED current_proxy
       ELSE IF fast_proxies(proxies) # <<>>
            THEN \E p \in Range(fast_proxies(proxies)) :
                    /\ current_proxy' = p
                    /\ EndRotate(t, Returned(p))
            ELSE /\ EndRotate(t, Returned(None))
                 /\ UNCHANGED current_proxy
    /\ UNCHANGED <<proxies, objAddr, objGen, objRT, new_proxies, vlist, vi,
                   valid_proxies, nstart, cycles>>

\* --------------------------------------- ProxyManager.refresh_proxy_list
\* new_proxies = self.scrape_proxies(): every source is tried, an exception
\* of a source is logged and the source skipped.
scrape_proxies(t) ==
    /\ pc[t] = "fetch"
    /\ cycles < MaxCycles
    /\ \E res \in ScrapeRuns :
          LET rows == Scraped(res, NumSources)
              n == Len(objAddr)
              list == [i \in 1..Len(rows) |-> n + i]
          IN /\ n + Len(rows) <= MaxObjs
             /\ objAddr' = objAddr \o rows
             /\ objRT' = objRT \o [i \in 1..Len(rows) |-> None]
             /\ objGen' = objGen \o [i \in 1..Len(rows) |-> cycles + 1]
             /\ new_proxies' = [new_proxies EXCEPT ![t] = list]
             /\ allFailed' = [allFailed EXCEPT
                                ![t] = \A s \in 1..NumSources : ~res[s].ok]
    /\ cycles' = cycles + 1
    /\ pc' = [pc EXCEPT ![t] = "swap_acq"]
    /\ UNCHANGED <<proxies, current_proxy, lock, vlist, vi, valid_proxies,
                   sleep_for, ret, nstart, snap, hadEligible>>

\* refresh_acquire with the pool replaced outside the lock
refresh_acquire_nolock(t) ==
    /\ pc[t] = "swap_acq"
    /\ pc' = [pc EXCEPT ![t] = "swap"]
    /\ UNCHANGED <<proxies, current_proxy, lock, objAddr, objGen, objRT,
                   new_proxies, vlist, vi, valid_proxies, sleep_for, ret,
                   nstart, cycles, snap, allFailed,
                   hadEligible>>

\* with self.lock: (entry, line 168)
refresh_acquire(t) ==
    /\ pc[t] = "swap_acq"
    /\ lock = {}
    /\ lock' = {t}
    /\ pc' = [pc EXCEPT ![t] = "swap"]
    /\ UNCHANGED <<proxies, current_proxy, objAddr, objGen, objRT,
                   new_proxies, vlist, vi, valid_proxies, sleep_for, ret,
                   nstart, cycles, snap, allFailed,
                   hadEligible>>

\* refresh_swap with the selection cleared along with the pool
refresh_swap_clears(t) ==
    /\ pc[t] = "swap"
    /\ proxies' = new_proxies[t]
    /\ current_proxy' = None
    /\ new_proxies' = [new_proxies EXCEPT ![t] = <<>>]
    /\ lock' = lock \ {t}
    /\ pc' = [pc EXCEPT ![t] = "val_begin"]
    /\ UNCHANGED <<objAddr, objGen, objRT, vlist, vi,
                   valid_proxies, sleep_for, ret, nstart, cycles, snap,
                   allFailed, hadEligible>>

\* self.proxies = new_proxies, and the lock is released
refresh_swap(t) ==
    /\ pc[t] = "swap"
    /\ proxies' = new_proxies[t]
    /\ new_proxies' = [new_proxies EXCEPT ![t] = <<>>]
    /\ lock' = lock \ {t}
    /\ pc' = [pc EXCEPT ![t] = "val_begin"]
    /\ UNCHANGED <<current_proxy, objAddr, objGen, objRT, vlist, vi,
                   valid_proxies, sleep_for, ret, nstart, cycles, snap,
                   allFailed, hadEligible>>

\* validate_proxies_begin with the whole validation put under the lock
validate_proxies_begin_locked(t) ==
    /\ pc[t] = "val_begin"
    /\ lock = {}
    /\ lock' = {t}
    /\ vlist' = [vlist EXCEPT ![t] = proxies]
    /\ vi' = [vi EXCEPT ![t] = 1]
    /\ valid_proxies' = [valid_proxies EXCEPT ![t] = <<>>]
    /\ pc' = [pc EXCEPT ![t] = "val_loop"]
    /\ UNCHANGED <<proxies, current_proxy, objAddr, objGen, objRT,
                   new_proxies, sleep_for, ret, nstart, cycles, snap,
                   allFailed, hadEligible>>

\* validate_proxies: valid_proxies = []; for proxy in self.proxies
\* (the list is read once, with no lock held)
validate_proxies_begin(t) ==
    /\ pc[t] = "val_begin"
    /\ vlist' = [vlist EXCEPT ![t] = proxies]
    /\ vi' = [vi EXCEPT ![t] = 1]
    /\ valid_proxies' = [valid_proxies EXCEPT ![t] = <<>>]
    /\ pc' = [pc EXCEPT ![t] = "val_loop"]
    /\ UNCHANGED <<proxies, current_proxy, lock, objAddr, objGen, objRT,
                   new_proxies, sleep_for, ret, nstart, cycles, snap,
                   allFailed, hadEligible>>

\* one iteration: if self.validate_proxy(proxy): valid_proxies.append(proxy)
validate_proxies_step(t) ==
    /\ pc[t] = "val_loop"
    /\ vi[t] <= Len(vlist[t])
    /\ LET o == vlist[t][vi[t]]
       IN \E run \in ProbeRuns, rt \in RTs :
             IF validate_proxy(run)
             THEN /\ objRT' = [objRT EXCEPT ![o] = rt]
                  /\ valid_proxies' =
                        [valid_proxies EXCEPT ![t] = Append(@, o)]
             ELSE UNCHANGED <<objRT, valid_proxies>>
    /\ vi' = [vi EXCEPT ![t] = @ + 1]
    /\ UNCHANGED <<proxies, current_proxy, lock, objAddr, objGen, pc,
                   new_proxies, vlist, sleep_for, ret, nstart, cycles, snap,
                   allFailed, hadEligible>>

\* the loop is over; with self.lock: (entry, line 136)
validate_proxies_acquire(t) ==
    /\ pc[t] = "val_loop"
    /\ vi[t] > Len(vlist[t])
    /\ lock = {}
    /\ lock' = {t}
    /\ pc' = [pc EXCEPT ![t] = "val_swap"]
    /\ UNCHANGED <<proxies, current_proxy, objAddr, objGen, objRT,
                   new_proxies, vlist, vi, valid_proxies, sleep_for, ret,
                   nstart, cycles, snap, allFailed,
                   hadEligible>>

\* validate_proxies_swap with the selection dropped when it left the pool
validate_proxies_swap_drops(t) ==
    /\ pc[t] = "val_swap"
    /\ proxies' = valid_proxies[t]
    /\ current_proxy' = IF current_proxy \in Range(valid_proxies[t])
                        THEN current_proxy ELSE None
    /\ vlist' = [vlist EXCEPT ![t] = <<>>]
    /\ vi' = [vi EXCEPT ![t] = 0]
    /\ valid_proxies' = [valid_proxies EXCEPT ![t] = <<>>]
    /\ lock' = lock \ {t}
    /\ pc' = [pc EXCEPT ![t] = "chk_cur"]
    /\ hadEligible' = [hadEligible EXCEPT
                         ![t] = \E i \in DOMAIN valid_proxies[t] :
                                   objRT[valid_proxies[t][i]]
                                       \in 0..(threshold - 1)]
    /\ UNCHANGED <<objAddr, objGen, objRT, new_proxies,
                   sleep_for, ret, nstart, cycles, snap, allFailed>>

\* self.proxies = valid_proxies, and the lock is released
validate_proxies_swap(t) ==
    /\ pc[t] = "val_swap"
    /\ proxies' = valid_proxies[t]
    /\ vlist' = [vlist EXCEPT ![t] = <<>>]
    /\ vi' = [vi EXCEPT ![t] = 0]
    /\ valid_proxies' = [valid_proxies EXCEPT ![t] = <<>>]
    /\ lock' = lock \ {t}
    /\ pc' = [pc EXCEPT ![t] = "chk_cur"]
    /\ hadEligible' = [hadEligible EXCEPT
                         ![t] = \E i \in DOMAIN valid_proxies[t] :
                                   objRT[valid_proxies[t][i]]
                                       \in 0..(threshold - 1)]
    /\ UNCHANGED <<current_proxy, objAddr, objGen, objRT, new_proxies,
                   sleep_for, ret, nstart, cycles, snap, allFailed>>

\* if not self.current_proxy: self.rotate_proxy(); else time.sleep(3600)
refresh_check_current(t) ==
    /\ pc[t] = "chk_cur"
    /\ IF current_proxy = None
       THEN /\ pc' = [pc EXCEPT ![t] = "rot_acq"]
            /\ UNCHANGED <<sleep_for, allFailed, hadEligible>>
       ELSE /\ pc' = [pc EXCEPT ![t] = "sleep"]
            /\ sleep_for' = [sleep_for EXCEPT ![t] = check_interval]
            /\ ForgetCycle(t)
    /\ UNCHANGED <<proxies, current_proxy, lock, objAddr, objGen, objRT,
                   new_proxies, vlist, vi, valid_proxies, ret, nstart,
                   cycles, snap>>

\* refresh_except with the exception raised again: the thread ends
refresh_except_fatal(t) ==
    /\ pc[t] = "except"
    /\ pc' = [pc EXCEPT ![t] = "dead"]
    /\ UNCHANGED <<proxies, current_proxy, lock, objAddr, objGen, objRT,
                   new_proxies, vlist, vi, valid_proxies, sleep_for, ret,
                   nstart, cycles, snap, allFailed,
                   hadEligible>>

\* except Exception: logging.error(...); time.sleep(60)
refresh_except(t) ==
    /\ pc[t] = "except"
    /\ pc' = [pc EXCEPT ![t] = "sleep"]
    /\ sleep_for' = [sleep_for EXCEPT ![t] = backoff]
    /\ ForgetCycle(t)
    /\ UNCHANGED <<proxies, current_proxy, lock, objAddr, objGen, objRT,
                   new_proxies, vlist, vi, valid_proxies, ret, nstart,
                   cycles, snap>>

\* time.sleep returns: while True goes round
refresh_wake(t) ==
    /\ pc[t] = "sleep"
    /\ pc' = [pc EXCEPT ![t] = "fetch"]
    /\ sleep_for' = [sleep_for EXCEPT ![t] = 0]
    /\ UNCHANGED <<proxies, current_proxy, lock, objAddr, objGen, objRT,
                   new_proxies, vlist, vi, valid_proxies, ret, nstart,
                   cycles, snap, allFailed, hadEligible>>

Next ==
    \/ start /\ UNCHANGED <<vvars, svars, fvars>>
    \/ get_current_proxy /\ UNCHANGED <<vvars, svars, fvars>>
    \/ call_rotate_proxy /\ UNCHANGED <<vvars, svars, fvars>>
    \/ caller_resume /\ UNCHANGED <<vvars, svars, fvars>>
    \/ \E t \in Threads : rotate_proxy_acquire(t) /\ UNCHANGED <<vvars, svars, fvars>>
    \/ \E t \in Threads : rotate_proxy_check(t) /\ UNCHANGED <<vvars, svars, fvars>>
    \/ \E t \in Threads : rotate_proxy_select(t) /\ UNCHANGED <<vvars, svars, fvars>>
    \/ \E t \in Refreshers : scrape_proxies(t) /\ UNCHANGED <<vvars, svars, fvars>>
    \/ \E t \in Refreshers : refresh_acquire(t) /\ UNCHANGED <<vvars, svars, fvars>>
    \/ \E t \in Refreshers : refresh_swap(t) /\ UNCHANGED <<vvars, svars, fvars>>
    \/ \E t \in Refreshers : validate_proxies_begin(t) /\ UNCHANGED <<vvars, svars, fvars>>
    \/ \E t \in Refreshers : validate_proxies_step(t) /\ UNCHANGED <<vvars, svars, fvars>>
    \/ \E t \in Refreshers : validate_proxies_acquire(t) /\ UNCHANGED <<vvars, svars, fvars>>
    \/ \E t \in Refreshers : validate_proxies_swap(t) /\ UNCHANGED <<vvars, svars, fvars>>
    \/ \E t \in Refreshers : refresh_check_current(t) /\ UNCHANGED <<vvars, svars, fvars>>
    \/ \E t \in Refreshers : refresh_except(t) /\ UNCHANGED <<vvars, svars, fvars>>
    \/ \E t \in Refreshers : refresh_wake(t) /\ UNCHANGED <<vvars, svars, fvars>>

Spec == Init /\ [][Next]_vars

\* A step of refresh thread t
RefreshStep(t) ==
    \/ scrape_proxies(t)
    \/ refresh_acquire(t)
    \/ refresh_swap(t)
    \/ validate_proxies_begin(t)
    \/ validate_proxies_step(t)
    \/ validate_proxies_acquire(t)
    \/ validate_proxies_swap(t)
    \/ refresh_check_current(t)
    \/ rotate_proxy_acquire(t)
    \/ rotate_proxy_check(t)
    \/ rotate_proxy_select(t)
    \/ refresh_except(t)
    \/ refresh_wake(t)

\* Every thread that can run does run: a sleep ends, a network call ends
\* (each has a timeout), the holder of the lock leaves its region, and a
\* thread waiting for the lock gets it if the lock is free again and again.
FairSpec ==
    /\ Spec
    /\ \A t \in Refreshers : SF_vars(RefreshStep(t) /\ UNCHANGED <<vvars, svars, fvars>>)
    /\ WF_vars((rotate_proxy_check(Main) \/ rotate_proxy_select(Main))
                  /\ UNCHANGED <<vvars, svars, fvars>>)

\* ======================================================= ProxyValidator
\* What one pass of the loop over test_urls can end in: a 200 response, a
\* response with another 2xx status or with a status outside 2xx (both are
\* `status != 200`: return False), an exception of session.get (inner
\* except), or an exception outside the inner try (outer except Exception).
ValidatorProbeResults ==
    {"ok", "other_2xx", "bad_status", "exception", "unexpected"}

\* ProxyValidator(): the cap is configuration; a caller then submits a batch.
InitValidator ==
    /\ max_concurrent_tests \in 1..MaxCap
    /\ batch \in 0..MaxBatch
    /\ sem = 0
    /\ tpc = [i \in Tasks |-> "absent"]
    /\ turl = [i \in Tasks |-> 0]
    /\ tprobes = [i \in Tasks |-> <<>>]
    /\ tproxy = [i \in Tasks |-> ParsedProxy]
    /\ vvalid = <<>>
    /\ vret = <<>>
    /\ vpc = "idle"

InitV == InitManager /\ InitValidator /\ InitStorage /\ InitFilterIdle

\* time.time() while a batch is validated: later than the time 0 at which
\* the dicts were parsed (a batch is short in the unit of this clock; the
\* response time a validation measures is drawn from RTs)
BatchTime == 1

\* validate_proxies up to gather: the list, the semaphore, one task a proxy
validator_begin ==
    /\ vpc = "idle"
    /\ vvalid' = <<>>
    /\ sem' = max_concurrent_tests
    /\ tpc' = [i \in Tasks |-> IF i <= batch THEN "wait" ELSE "absent"]
    /\ vpc' = "gather"
    /\ UNCHANGED <<max_concurrent_tests, batch, turl, tprobes, tproxy,
                   vret>>

\* sem_acquire with the wait for a free slot left out
sem_acquire_unbounded(i) ==
    /\ tpc[i] = "wait"
    /\ sem' = sem - 1
    /\ tpc' = [tpc EXCEPT ![i] = "probe"]
    /\ turl' = [turl EXCEPT ![i] = 1]
    /\ UNCHANGED <<max_concurrent_tests, batch, tprobes, tproxy, vvalid,
                   vret, vpc>>

\* async with sem: a slot is free; validate_proxy starts its first probe
sem_acquire(i) ==
    /\ tpc[i] = "wait"
    /\ sem > 0
    /\ sem' = sem - 1
    /\ tpc' = [tpc EXCEPT ![i] = "probe"]
    /\ turl' = [turl EXCEPT ![i] = 1]
    /\ UNCHANGED <<max_concurrent_tests, batch, tprobes, tproxy, vvalid,
                   vret, vpc>>

\* The task is over: the slot is released on the way out of async with.
task_exit(i) ==
    /\ sem' = sem + 1
    /\ tpc' = [tpc EXCEPT ![i] = "done"]
    /\ turl' = [turl EXCEPT ![i] = 0]

\* All probes passed: proxy['response_time'] = end_time - start_time and
\* proxy['last_checked'] = time.time()
MarkPassed(i) ==
    \E rt \in RTs :
        tproxy' = [tproxy EXCEPT
                     ![i] = Set(Set(@, "response_time", rt),
                                "last_checked", BatchTime)]

\* validator_probe with the slot released only when the proxy passes
validator_probe_leaks(i) ==
    /\ tpc[i] = "probe"
    /\ \E r \in ValidatorProbeResults :
          /\ tprobes' = [tprobes EXCEPT ![i] = Append(@, r)]
          /\ IF r = "ok"
             THEN IF turl[i] < NumValidatorUrls
                  THEN /\ turl' = [turl EXCEPT ![i] = @ + 1]
                       /\ UNCHANGED <<sem, tpc, tproxy, vvalid>>
                  ELSE /\ vvalid' = Append(vvalid, i)
                       /\ MarkPassed(i)
                       /\ task_exit(i)
             ELSE /\ tpc' = [tpc EXCEPT ![i] = "done"]
                  /\ turl' = [turl EXCEPT ![i] = 0]
                  /\ UNCHANGED <<sem, tproxy, vvalid>>
    /\ UNCHANGED <<max_concurrent_tests, batch, vret, vpc>>

\* One probe of validate_proxy ends. A 200 goes on to the next url, and after
\* the last url the proxy is marked and appended; anything else returns False
\* at once, the proxy dict untouched.
validator_probe(i) ==
    /\ tpc[i] = "probe"
    /\ \E r \in ValidatorProbeResults :
          /\ tprobes' = [tprobes EXCEPT ![i] = Append(@, r)]
          /\ IF r = "ok"
             THEN IF turl[i] < NumValidatorUrls
                  THEN /\ turl' = [turl EXCEPT ![i] = @ + 1]
                       /\ UNCHANGED <<sem, tpc, tproxy, vvalid>>
                  ELSE /\ vvalid' = Append(vvalid, i)
                       /\ MarkPassed(i)
                       /\ task_exit(i)
             ELSE /\ task_exit(i)
                  /\ UNCHANGED <<tproxy, vvalid>>
    /\ UNCHANGED <<max_concurrent_tests, batch, vret, vpc>>

\* validator_return as soon as one task is over (a wait for the first result)
validator_return_first ==
    /\ vpc = "gather"
    /\ batch > 0 => \E i \in 1..batch : tpc[i] = "done"
    /\ vret' = vvalid
    /\ vpc' = "returned"
    /\ UNCHANGED <<max_concurrent_tests, batch, sem, tpc, turl, tprobes,
                   tproxy, vvalid>>

\* await asyncio.gather(*tasks) is over; return valid_proxies
validator_return ==
    /\ vpc = "gather"
    /\ \A i \in 1..batch : tpc[i] = "done"
    /\ vret' = vvalid
    /\ vpc' = "returned"
    /\ UNCHANGED <<max_concurrent_tests, batch, sem, tpc, turl, tprobes,
                   tproxy, vvalid>>

NextV ==
    \/ validator_begin /\ UNCHANGED <<mvars, svars, fvars>>
    \/ \E i \in Tasks : sem_acquire(i) /\ UNCHANGED <<mvars, svars, fvars>>
    \/ \E i \in Tasks : validator_probe(i) /\ UNCHANGED <<mvars, svars, fvars>>
    \/ validator_return /\ UNCHANGED <<mvars, svars, fvars>>

SpecV == InitV /\ [][NextV]_vars

\* asyncio runs every task that is ready: each step that stays possible is taken
FairSpecV ==
    /\ SpecV
    /\ WF_vars(validator_begin /\ UNCHANGED <<mvars, svars, fvars>>)
    /\ \A i \in Tasks : WF_vars(sem_acquire(i) /\ UNCHANGED <<mvars, svars, fvars>>)
    /\ \A i \in Tasks : WF_vars(validator_probe(i) /\ UNCHANGED <<mvars, svars, fvars>>)
    /\ WF_vars(validator_return /\ UNCHANGED <<mvars, svars, fvars>>)

\* ProxyStorage on its own: calls of its three methods, time passing between
InitS == InitManager /\ InitValidatorIdle /\ InitStorage /\ InitFilterIdle

NextS ==
    \/ save_proxies /\ UNCHANGED <<mvars, vvars, fvars>>
    \/ load_proxies /\ UNCHANGED <<mvars, vvars, fvars>>
    \/ update_proxy_status /\ UNCHANGED <<mvars, vvars, fvars>>
    \/ tick /\ UNCHANGED <<mvars, vvars, fvars>>

SpecS == InitS /\ [][NextS]_vars

\* rotate_proxy on its own, called once on a pool of any dicts
InitF == InitManager /\ InitValidatorIdle /\ InitStorage /\ InitFilter

NextF == rotate_pool /\ UNCHANGED <<mvars, vvars, svars>>

SpecF == InitF /\ [][NextF]_vars

\* Probes in flight: the tasks inside validate_proxy
InFlight == {i \in Tasks : tpc[i] = "probe"}

\* validate_proxy returned True for task i
Passed(i) ==
    /\ Len(tprobes[i]) = NumValidatorUrls
    /\ \A u \in 1..NumValidatorUrls : tprobes[i][u] = "ok"

\* ------------------------------------------------------------- claims
\* C1: while validate_proxies runs a batch, the number of candidates inside
\* validate_proxy at the same time never exceeds max_concurrent_tests,
\* whatever the batch size and the order in which probes end.
C1_AtMostCapInFlight == Cardinality(InFlight) <= max_concurrent_tests

\* a batch larger than the cap: the cap is reached and a candidate waits
C1_Witness ==
    /\ batch > max_concurrent_tests
    /\ Cardinality(InFlight) = max_concurrent_tests
    /\ \E i \in Tasks : tpc[i] = "wait"
    /\ \E i \in Tasks : tpc[i] = "done"

\* C9: validate_proxies returns only when every candidate's outcome is known;
\* the list it returns holds exactly the candidates that passed, each once,
\* a failed or raising candidate being merely absent; nothing is handed to
\* the caller before.
C9_ExactlyThePassing ==
    /\ vpc # "returned" => vret = <<>>
    /\ vpc = "returned" =>
          /\ \A i \in 1..batch : tpc[i] = "done"
          /\ Range(vret) = {i \in 1..batch : Passed(i)}
          /\ Len(vret) = Cardinality(Range(vret))

\* A passes, B times out on its second probe, C gets a bad status on its
\* first: the call returned [A]
C9_Witness ==
    /\ vpc = "returned"
    /\ batch = 3
    /\ tprobes[1] = <<"ok", "ok", "ok">>
    /\ tprobes[2] = <<"ok", "exception">>
    /\ tprobes[3] = <<"bad_status">>
    /\ vret = <<1>>

\* C10: every probe ending, under fair scheduling every submitted candidate
\* gets a slot, every slot is given back on pass, fail and exception alike,
\* and the call returns.
C10_BatchTerminates ==
    /\ (vpc = "gather") ~> (vpc = "returned")
    /\ \A i \in Tasks : (tpc[i] = "wait") ~> (tpc[i] = "done")
    /\ [](vpc = "returned" => sem = max_concurrent_tests)

\* a batch larger than the cap returned although candidates failed and raised
C10_Witness ==
    /\ vpc = "returned"
    /\ batch > max_concurrent_tests
    /\ sem = max_concurrent_tests
    /\ \E i \in 1..batch : tprobes[i] = <<"exception">>
    /\ \E i \in 1..batch : tprobes[i] = <<"unexpected">>
    /\ \E i \in 1..batch : Passed(i)

\* A probe that ended in a response with a 2xx status
Is2xx(r) == r \in {"ok", "other_2xx"}

\* C11 (as claimed): a candidate passes exactly if the probes of all test
\* urls, made in order, ended in a 2xx response; the first probe that did not
\* ends the validation, so no probe follows a failed one and the validation
\* ends early only at a failed probe.
C11_PassIffAll2xx ==
    \A i \in Tasks :
        tpc[i] = "done" =>
            LET n == Len(tprobes[i])
            IN /\ \A u \in 1..(n - 1) : Is2xx(tprobes[i][u])
               /\ n < NumValidatorUrls => ~Is2xx(tprobes[i][n])
               /\ i \in Range(vvalid) <=>
                     (n = NumValidatorUrls /\ \A u \in 1..n : Is2xx(tprobes[i][u]))

\* C16 (as claimed): a validation attempt on a proxy adds one to exactly one
\* of its counters, success_count on a pass and fail_count on a fail, so
\* their sum is at least 1 afterwards.
C16_AttemptCounted ==
    \A i \in Tasks :
        tpc[i] = "done" =>
            LET sc == Get(tproxy[i], "success_count", 0)
                fc == Get(tproxy[i], "fail_count", 0)
            IN /\ sc + fc >= 1
               /\ sc = (IF Passed(i) THEN 1 ELSE 0)
               /\ fc = (IF Passed(i) THEN 0 ELSE 1)

\* C17 (as claimed): a validation attempt sets last_checked to the time of
\* the attempt whether the proxy passes or fails, and sets response_time
\* only when it passes.
C17_LastCheckedEveryAttempt ==
    \A i \in Tasks :
        tpc[i] = "done" =>
            /\ tproxy[i]["last_checked"] = BatchTime
            /\ tproxy[i]["response_time"] # None <=> Passed(i)

\* ------------------------------------------------- claims, ProxyStorage
\* The dict of the list that save_proxies writes last for identity a
LastFor(list, a) ==
    list[CHOOSE i \in DOMAIN list :
            /\ list[i]["ip"] = a
            /\ \A j \in DOMAIN list : j > i => list[j]["ip"] # a]

\* A step that is a save_proxies call with the list of the call before it
SavesAgain == sop'.op = "save" /\ sop'.again /\ clock' = clock

\* C12 (as claimed): save_proxies called again with the same list leaves the
\* table exactly as the first call left it.
C12_SaveTwiceSameState == [][SavesAgain => db' = db]_vars

\* C12 (amended): save_proxies called again with the same list leaves every
\* row as the first call left it, counters included, except the last_checked
\* of a proxy given without 'last_checked', which is the time of the second
\* call; no identity ever has two rows; and a save_proxies stores the
\* counters of the list as they are, adding nothing to them.
C12_SaveTwiceSameButDefaults ==
    [][/\ SavesAgain =>
             /\ Cardinality(db') = Cardinality(db)
             /\ \A r \in db : \E r2 \in db' :
                    /\ r2.ip = r.ip
                    /\ r2.response_time = r.response_time
                    /\ r2.success_count = r.success_count
                    /\ r2.fail_count = r.fail_count
                    /\ \/ r2.last_checked = r.last_checked
                       \/ /\ \E i \in DOMAIN sop'.list : sop'.list[i]["ip"] = r.ip
                          /\ "last_checked" \notin
                                 DOMAIN LastFor(sop'.list, r.ip)
                          /\ r2.last_checked = clock
       /\ \A r1, r2 \in db' : r1.ip = r2.ip => r1 = r2
       /\ (sop'.op = "save" /\ clock' = clock) =>
             \A i \in DOMAIN sop'.list : \E r \in db' :
                 LET d == LastFor(sop'.list, sop'.list[i]["ip"])
                 IN /\ r.ip = d["ip"]
                    /\ r.success_count = Get(d, "success_count", 0)
                    /\ r.fail_count = Get(d, "fail_count", 0)]_vars

\* a list whose proxy has a success counted and no 'last_checked' was saved,
\* and saved again later: the row has its counter as given and the later time
C12_Witness ==
    /\ sop.op = "save"
    /\ sop.again
    /\ clock > 0
    /\ \E i \in DOMAIN sop.list : \E r \in db :
          /\ r.ip = sop.list[i]["ip"]
          /\ "last_checked" \notin DOMAIN sop.list[i]
          /\ Get(sop.list[i], "success_count", 0) = 1
          /\ r.success_count = 1
          /\ r.last_checked = clock

\* C13 (as claimed): over save_proxies and update_proxy_status calls a row
\* stays and its success_count and fail_count never decrease.
C13_CountersNeverDecrease ==
    [][\A r \in db : \E r2 \in db' :
          /\ r2.ip = r.ip
          /\ r2.success_count >= r.success_count
          /\ r2.fail_count >= r.fail_count]_vars

\* C14 (as claimed): load_proxies with min_uptime 0, called after a
\* save_proxies of proxies with distinct identities, returns every proxy
\* saved with the values saved: counters both 0 included, and a proxy saved
\* with no response_time comes back with none.
C14_RoundTrip ==
    [][(sop.op = "save" /\ sop'.op = "load" /\ sop'.min_uptime = 0) =>
          \A i \in DOMAIN sop.list :
              LET d == sop.list[i]
              IN (\A j \in DOMAIN sop.list : j # i => sop.list[j]["ip"] # d["ip"])
                 => \E x \in loaded' :
                        /\ x.ip = d["ip"]
                        /\ x.response_time = Get(d, "response_time", None)
                        /\ x.last_checked = Get(d, "last_checked", x.last_checked)
                        /\ x.success_count = Get(d, "success_count", 0)
                        /\ x.fail_count = Get(d, "fail_count", 0)]_vars

\* C15 (as claimed): load_proxies returns exactly the rows whose uptime ratio
\* is at least min_uptime and whose last_checked is at most max_age old, the
\* ratio of a row with both counters 0 being 0.
C15_LoadExactlyQualifying ==
    [][(sop'.op = "load" /\ clock' = clock /\ db' = db) =>
          loaded' =
              {r \in db :
                  /\ IF r.success_count + r.fail_count = 0
                     THEN 0 >= sop'.min_uptime
                     ELSE r.success_count * 100 >=
                             sop'.min_uptime * (r.success_count + r.fail_count)
                  /\ r.last_checked >= clock - max_age}]_vars

\* ------------------------------------------------- claims, rotation filter
\* C21 (as claimed): a member with no 'response_time' passes the filter by
\* the default value: from a pool whose members all lack it, rotate_proxy
\* returns a member.
C21_MissingPasses ==
    (/\ fret.state = "returned"
     /\ fproxies # <<>>
     /\ \A i \in DOMAIN fproxies : "response_time" \notin DOMAIN fproxies[i])
    => (~fret.raised /\ fret.index \in DOMAIN fproxies)

\* C21 (amended): a member with no recorded response_time is never returned
\* by rotate_proxy. For a missing 'response_time' the default is the
\* threshold itself, which is not below the threshold, so the member fails
\* the filter; a 'response_time' of None makes the filter raise TypeError.
\* What is returned has a number below the threshold.
C21_MissingNeverReturned ==
    fret.state = "returned" =>
        /\ fret.index # 0 =>
               /\ fret.index \in DOMAIN fproxies
               /\ "response_time" \in DOMAIN fproxies[fret.index]
               /\ fproxies[fret.index]["response_time"] \in 0..(threshold - 1)
        /\ fret.raised <=>
               \E i \in DOMAIN fproxies :
                   /\ "response_time" \in DOMAIN fproxies[i]
                   /\ fproxies[i]["response_time"] = None
        /\ (/\ fproxies # <<>>
            /\ \A i \in DOMAIN fproxies :
                   "response_time" \notin DOMAIN fproxies[i])
           => fret = FilterEnd(FALSE, 0)

\* the pool holds a member without 'response_time' and, after it, a member
\* below the threshold: the second was returned
C21_Witness ==
    /\ fret = FilterEnd(FALSE, 2)
    /\ Len(fproxies) >= 2
    /\ "response_time" \notin DOMAIN fproxies[1]
    /\ fproxies[2] = ("response_time" :> 1)

\* ------------------------------------------------- claims, ProxyManager
\* The proxies of the pool that a validation has passed
Validated(list) == {o \in Range(list) : objRT[o] # None}

\* The proxies of the pool with a response time below the threshold
Eligible(list) == {o \in Validated(list) : objRT[o] < threshold}

\* C2: the pool rotate_proxy reads while a replacement is under way is one
\* whole list: the list its filter reads is the list its emptiness test
\* read, and its members all come from one scrape, never from two.
C2_ReadsOneGeneration ==
    \A t \in Threads :
        pc[t] = "rot_sel" =>
            /\ proxies = snap[t]
            /\ \A o1, o2 \in Range(proxies) : objGen[o1] = objGen[o2]

\* the caller is inside its read while a refresh thread waits to replace the
\* pool by another list
C2_Witness ==
    /\ pc[Main] = "rot_sel"
    /\ \E t \in Refreshers :
          \/ pc[t] = "swap_acq" /\ new_proxies[t] # proxies
          \/ /\ pc[t] = "val_loop"
             /\ vi[t] > Len(vlist[t])
             /\ valid_proxies[t] # proxies

\* C3 (as claimed): whenever the lock is free, every member of the pool has
\* passed validation.
C3_PoolValidated ==
    lock = {} => Validated(proxies) = Range(proxies)

\* C4 (as claimed): rotate_proxy returns None if the pool is empty or holds no
\* member below the threshold, and else a member below the threshold.
C4_SelectResult ==
    [][(pc[Main] \in {"rot_chk", "rot_sel"} /\ pc'[Main] = "returned") =>
          IF Eligible(proxies) = {}
          THEN ret' = Returned(None)
          ELSE ~ret'.raised /\ ret'.value \in Eligible(proxies)]_vars

\* C5 (as claimed): a call of the caller never ends in an exception.
C5_NeverRaises == ~ret.raised

\* C6 (as claimed): a cycle in which every source failed leaves the pool as
\* it was and ends in the sleep of 60 s (stated of a loop that runs alone, so
\* that no other loop's replacement is taken for its own).
C6_FailedFetchBacksOff ==
    [][\A t \in Refreshers :
          (allFailed[t] /\ \A u \in Refreshers \ {t} : pc[u] = "off") =>
              /\ (pc[t] \in {"swap", "val_swap"} /\ pc'[t] # pc[t]) =>
                     proxies' = proxies
              /\ (pc[t] # "sleep" /\ pc'[t] = "sleep") =>
                     sleep_for'[t] = backoff]_vars

\* C7: the refresh loop never ends: an exception in a cycle goes to the
\* handler, then to the sleep of 60 s, and a started loop is at its fetch
\* again and again.
C7_LoopNeverEnds ==
    /\ \A t \in Refreshers : []<>(pc[t] \in {"off", "fetch"})
    /\ [][\A t \in Refreshers :
            (pc[t] = "except" /\ pc'[t] # "except") =>
                (pc'[t] = "sleep" /\ sleep_for'[t] = backoff)]_vars
    /\ [][\A t \in Refreshers : pc[t] # "off" => pc'[t] # "off"]_vars

\* a cycle of a refresh thread has raised
C7_Witness == \E t \in Refreshers : pc[t] = "except"

\* C8 (as claimed): however often start() was called, one refresh loop runs.
C8_OneRefreshLoop ==
    nstart >= 1 => Cardinality({t \in Refreshers : pc[t] # "off"}) = 1

\* C18: the selection changes only in the step of rotate_proxy that assigns
\* it, and get_current_proxy returns the selection as it is: so after a
\* rotate_proxy chose P every get_current_proxy returns P until a later
\* rotate_proxy chooses, whatever replaces the pool meanwhile.
C18_SelectionStable ==
    [][/\ current_proxy' # current_proxy =>
             \E t \in Threads :
                 /\ pc[t] = "rot_sel"
                 /\ pc'[t] # "rot_sel"
                 /\ current_proxy' \in Range(proxies)
       /\ (pc[Main] = "idle" /\ ret'.op = "get_current_proxy") =>
             ret'.value = current_proxy]_vars

\* get_current_proxy has returned the selection after validation replaced the
\* pool by a list that no longer holds it
C18_Witness ==
    /\ ret.op = "get_current_proxy"
    /\ ret.value = current_proxy
    /\ current_proxy # None
    /\ current_proxy \notin Range(proxies)

\* C19 (as claimed): a cycle that finds no selection after its validation
\* calls rotate_proxy before it sleeps, a cycle that finds one does not; a
\* cycle whose validated pool held a proxy below the threshold enters its
\* sleep with a selection made, and a selection once made stays.
C19_SelectsBeforeFirstSleep ==
    [][\A t \in Refreshers :
          /\ (pc[t] = "chk_cur" /\ pc'[t] # "chk_cur") =>
                 pc'[t] = (IF current_proxy = None THEN "rot_acq" ELSE "sleep")
          /\ (pc[t] # "sleep" /\ pc'[t] = "sleep" /\ hadEligible[t]) =>
                 current_proxy' # None
          /\ current_proxy # None => current_proxy' # None]_vars

\* The positions at which a thread reads or writes self.proxies or
\* self.current_proxy in its next step
AccessPc == {"rot_chk", "rot_sel", "swap", "val_begin", "val_swap", "chk_cur"}

\* C20 (as claimed): a thread that reads or writes the pool or the selection
\* holds the lock while it does.
C20_AccessUnderLock ==
    [][\A t \in Threads :
          (\/ pc[t] \in AccessPc /\ pc'[t] # pc[t]
           \/ t = Main /\ pc[t] = "idle" /\ ret'.op = "get_current_proxy") =>
              t \in lock]_vars

\* The positions at which a refresh thread is in a network call: the fetch
\* of the sources, or a probe of the validation loop
InNetworkCall(t) ==
    \/ pc[t] = "fetch"
    \/ pc[t] = "val_loop" /\ vi[t] <= Len(vlist[t])

\* C22: a refresh thread in a fetch or a probe does not hold the lock; the
\* holder of the lock is at a replacement of the pool or inside rotate_proxy,
\* so a caller waiting for the lock never waits for a network call.
C22_NoNetworkUnderLock ==
    /\ \A t \in Refreshers : InNetworkCall(t) => t \notin lock
    /\ \A t \in lock : pc[t] \in {"swap", "val_swap", "rot_chk", "rot_sel"}
    /\ Cardinality(lock) <= 1

\* the caller holds the lock, inside rotate_proxy, while the one refresh
\* thread is in a probe of its validation loop
C22_Witness ==
    /\ pc[Main] \in {"rot_chk", "rot_sel"}
    /\ lock = {Main}
    /\ \E t \in Refreshers :
          /\ pc[t] = "val_loop"
          /\ vi[t] <= Len(vlist[t])
          /\ \A u \in Refreshers \ {t} : pc[u] = "off"

\* C23 (as claimed): no two members of the pool have the same ip:port.
C23_PoolKeyedByIdentity ==
    \A i, j \in DOMAIN proxies :
        i # j => objAddr[proxies[i]] # objAddr[proxies[j]]

\* C24 (as claimed): the selection is None or a member of the pool.
C24_SelectionInPool ==
    current_proxy = None \/ current_proxy \in Range(proxies)

\* C24 (amended): the selection is None or a proxy dict that a validation
\* has passed; a replacement of the pool leaves the selection as it is, and
\* so does a rotate_proxy that returns None, whether or not the selection is
\* still in the pool.
C24_SelectionKept ==
    /\ [](current_proxy # None =>
             /\ current_proxy \in DOMAIN objRT
             /\ objRT[current_proxy] # None)
    /\ [][proxies' # proxies => current_proxy' = current_proxy]_vars
    /\ [][\A t \in Threads :
             (/\ pc[t] \in {"rot_chk", "rot_sel"}
              /\ pc'[t] \in {"returned", "sleep"}
              /\ ~(\E p \in Range(proxies) : objRT[p] \in 0..(threshold - 1)))
             => current_proxy' = current_proxy]_vars

\* the caller's rotate_proxy found the pool empty and returned None, and the
\* selection still is the proxy chosen from an earlier pool
C24_Witness ==
    /\ ret = Returned(None)
    /\ proxies = <<>>
    /\ current_proxy # None

====
